---- MODULE Spec2Model ----
(***************************************************************************)
(* A model of src/simulator.js: the TaxSystem class with its asynchronous  *)
(* rule cache (loadCountryRules), the tax evaluator (calculateIncomeTaxes) *)
(* and the year loop of simulateScenario.                                  *)
(*                                                                         *)
(* Numbers.  Rates of the source are decimal fractions; the model keeps    *)
(* them as integers in units of 1/10000 ("bp"), so a tax amount is an      *)
(* integer number of 1/10000 currency units.  A JavaScript number that may *)
(* be non-finite is a record [num, den]: den # 0 is the rational num/den,  *)
(* [num |-> 1 or -1, den |-> 0] is +-Infinity and [num |-> 0, den |-> 0]   *)
(* is NaN.  A JavaScript value that may be undefined is a set: {} is       *)
(* undefined and {v} is the value v.  null is the number 0 where the       *)
(* source only tests it for truthiness (bracket.to).                       *)
(*                                                                         *)
(* Life events.  The loop reads the schedule one year at a time, by exact  *)
(* year, so each year's event is drawn when the loop reaches the year;     *)
(* what the call reads of lifeEvents[0] before the loop is part of the     *)
(* profile drawn at the start of the call.                                 *)
(*                                                                         *)
(* Steps.  A simulateScenario call is atomic between its await points: the *)
(* await of loadCountryRules in the loop, and the await of fetch inside    *)
(* loadCountryRules.                                                       *)
(***************************************************************************)
EXTENDS Integers, Sequences, FiniteSets

VARIABLES
    taxRules,          \* this.taxRules: country -> 0 (absent) or the version of the rules stored
    pending,           \* fetches issued by un-awaited loadCountryRules calls, per country
    pc,                \* where the simulateScenario call stands
    profile,           \* the profile passed to simulateScenario
    year,              \* loop variable
    lifeEvent,         \* the life event found for `year`: <<>> or <<event>>
    results,           \* the results array
    remainingWealth,
    investments,
    pensionPot,
    isRetired,
    previousIncome,
    previousExpenses,
    country,
    loadResult,        \* what the awaited loadCountryRules call returned
    outcomes,          \* history: for each year that reached rule resolution, what happened
    retireYear,        \* history: year of the first Retire event of this run, 0 if none yet
    okFetches,         \* history: successful fetches of this run, per country
    call,              \* the last evaluator call and what it returned
    suspended          \* the locals of a second simulateScenario call that waits at an
                       \* await while this one runs: <<>> or <<locals>>

simVars == <<remainingWealth, investments, pensionPot>>
runVars == <<pc, profile, year, lifeEvent, results, remainingWealth, investments,
             pensionPot, isRetired, previousIncome, previousExpenses, country,
             loadResult, outcomes, retireYear, okFetches, suspended>>
vars == <<taxRules, pending, runVars, call>>

(***************************************************************************)
(* Bounds of the model.                                                    *)
(***************************************************************************)
MaxYears == 3      \* the run covers at most this many calendar years
MaxPending == 1    \* un-awaited fetches in flight per country

\* new Date().getFullYear(): the first year of the loop, taken as year 1.
StartYear == 1

(***************************************************************************)
(* The rule tables (the content served for taxRules/<country>.json).       *)
(***************************************************************************)
Bracket(rate, from, to) == [rate |-> rate, from |-> from, to |-> to]

BracketTax(name, brackets) ==
    [name |-> name, type |-> "bracket", brackets |-> brackets, rate |-> 0, threshold |-> 0]

FlatTax(name, rate, threshold) ==
    [name |-> name, type |-> "flatRate", brackets |-> <<>>, rate |-> rate, threshold |-> threshold]

\* A flat wealth-tax rule (it has no type field): <<>> when a country has none.
WealthTax(rate, threshold) == <<[type |-> "", rate |-> rate, threshold |-> threshold]>>

\* type "fixedRate"; the rates in 1/10000
FixedRate(employeeRate, employerRate) ==
    [type |-> "fixedRate", employeeRate |-> employeeRate, employerRate |-> employerRate]

\* One band of an age-based pension rule; maxAge is a JavaScript number.
Band(maxAge, rate) == [maxAge |-> maxAge, rate |-> rate]

PosInfinity == [num |-> 1, den |-> 0]

GermanyRules ==
    [incomeTaxes |-> <<
        BracketTax("Income Tax", <<
            Bracket(1400, 0, 10000),
            Bracket(3000, 10001, 50000),
            Bracket(4200, 50001, 200000),
            Bracket(4500, 200001, 0) >>) >>,
     wealthTax |-> WealthTax(100, 1000000),
     capitalGainsTax |-> [indexFunds |-> 2500, etfs |-> 2500, investmentTrusts |-> 2800,
                          individualShares |-> 3000, bonds |-> 1500],
     pensionContribution |-> FixedRate(900, 900)]

USARules ==
    [incomeTaxes |-> <<
        BracketTax("Federal Income Tax", <<
            Bracket(1000, 0, 9950),
            Bracket(1200, 9951, 40525),
            Bracket(2200, 40526, 86375),
            Bracket(2400, 86376, 164925),
            Bracket(3200, 164926, 209425),
            Bracket(3500, 209426, 523600),
            Bracket(3700, 523601, 0) >>),
        FlatTax("Social Security Tax", 620, 0),
        FlatTax("Medicare Tax", 145, 0) >>,
     wealthTax |-> <<>>,
     capitalGainsTax |-> [indexFunds |-> 2000, etfs |-> 2000, investmentTrusts |-> 2200,
                          individualShares |-> 2500, bonds |-> 1500],
     pensionContribution |-> FixedRate(620, 620)]

FranceRules ==
    [incomeTaxes |-> <<
        BracketTax("Income Tax", <<
            Bracket(0, 0, 10225),
            Bracket(1100, 10226, 26070),
            Bracket(3000, 26071, 74545),
            Bracket(4100, 74546, 160336),
            Bracket(4500, 160337, 0) >>),
        FlatTax("General Social Contribution", 920, 0) >>,
     wealthTax |-> WealthTax(150, 1300000),
     capitalGainsTax |-> [indexFunds |-> 3000, etfs |-> 3000, investmentTrusts |-> 3200,
                          individualShares |-> 3500, bonds |-> 2000],
     pensionContribution |-> FixedRate(820, 1720)]

IrelandRules ==
    [incomeTaxes |-> <<
        BracketTax("Income Tax", <<
            Bracket(2000, 0, 36800),
            Bracket(4000, 36801, 0) >>),
        BracketTax("Universal Social Charge", <<
            Bracket(50, 0, 12012),
            Bracket(200, 12013, 21295),
            Bracket(450, 21296, 70044),
            Bracket(800, 70045, 0) >>),
        FlatTax("Pay Related Social Insurance", 400, 18304) >>,
     wealthTax |-> <<>>,
     capitalGainsTax |-> [indexFunds |-> 3300, etfs |-> 3300, investmentTrusts |-> 3300,
                          individualShares |-> 3300, bonds |-> 3300],
     pensionContribution |->
        [type |-> "ageBasedPercentage",
         rates |-> << Band([num |-> 29, den |-> 1], 1500),
                      Band([num |-> 39, den |-> 1], 2000),
                      Band([num |-> 49, den |-> 1], 2500),
                      Band([num |-> 59, den |-> 1], 3000),
                      Band(PosInfinity, 3500) >>,
         annualCap |-> 115000]]

\* The rules file of a country whose pension rule is of a type the evaluator
\* has no case for.
ArcadiaRules ==
    [incomeTaxes |-> << FlatTax("Income Tax", 2000, 0) >>,
     wealthTax |-> <<>>,
     capitalGainsTax |-> [bonds |-> 1000],
     pensionContribution |-> [type |-> "definedBenefit"]]

\* Countries that have a rules file.
RuleCountries == {"Germany", "USA", "France", "Ireland", "Arcadia"}

\* A country name for which no rules file exists: its fetch never succeeds.
NoRulesCountry == "Atlantis"

Countries == RuleCountries \cup {NoRulesCountry}

RulesOf(c) ==
    CASE c = "Germany" -> GermanyRules
      [] c = "USA" -> USARules
      [] c = "France" -> FranceRules
      [] c = "Ireland" -> IrelandRules
      [] c = "Arcadia" -> ArcadiaRules

\* The content of a rules file may differ from one fetch to the next.
Versions == {1, 2}

(***************************************************************************)
(* JavaScript numbers that may be non-finite.                              *)
(***************************************************************************)
Sign(n) == IF n > 0 THEN 1 ELSE IF n < 0 THEN -1 ELSE 0

Num(n) == [num |-> n, den |-> 1]

IsFinite(x) == x.den # 0

IsNaN(x) == x.den = 0 /\ x.num = 0

NaN == [num |-> 0, den |-> 0]

\* x / y (the sign of a zero is not kept: a zero divisor counts as +0)
JsDiv(x, y) ==
    IF x.den = 0
        THEN (IF y.den = 0 THEN NaN
              ELSE [num |-> x.num * (IF y.num < 0 THEN -1 ELSE 1), den |-> 0])
    ELSE IF y.den = 0 THEN (IF y.num = 0 THEN NaN ELSE Num(0))
    ELSE IF y.num = 0 THEN [num |-> Sign(x.num), den |-> 0]
    ELSE IF y.num < 0 THEN [num |-> 0 - (x.num * y.den), den |-> x.den * (0 - y.num)]
    ELSE [num |-> x.num * y.den, den |-> x.den * y.num]

\* x * y
JsMul(x, y) ==
    IF x.den = 0 \/ y.den = 0 THEN [num |-> Sign(x.num) * Sign(y.num), den |-> 0]
    ELSE [num |-> x.num * y.num, den |-> x.den * y.den]

\* x + y
JsAdd(x, y) ==
    IF x.den = 0 /\ y.den = 0
        THEN [num |-> IF x.num = y.num THEN x.num ELSE 0, den |-> 0]
    ELSE IF x.den = 0 THEN x
    ELSE IF y.den = 0 THEN y
    ELSE [num |-> x.num * y.den + y.num * x.den, den |-> x.den * y.den]

NumEq(x, y) ==
    /\ IsFinite(x)
    /\ IsFinite(y)
    /\ x.num * y.den = y.num * x.den

Min(a, b) == IF a < b THEN a ELSE b

\* x < y and x <= y (false when either side is NaN)
JsLt(x, y) ==
    IF IsNaN(x) \/ IsNaN(y) THEN FALSE
    ELSE IF x.den = 0 THEN x.num < 0 /\ ~(y.den = 0 /\ y.num < 0)
    ELSE IF y.den = 0 THEN y.num > 0
    ELSE x.num * y.den < y.num * x.den

JsLe(x, y) ==
    IF IsNaN(x) \/ IsNaN(y) THEN FALSE
    ELSE JsLt(x, y) \/ (x.den = 0 /\ y.den = 0 /\ x.num = y.num)
                   \/ (x.den # 0 /\ y.den # 0 /\ x.num * y.den = y.num * x.den)

(***************************************************************************)
(* calculateIncomeTaxes.                                                   *)
(***************************************************************************)
\* A bracket that is not capped at its upper bound.
BracketAmountUncapped(income, bracket) ==
    IF income > bracket.from THEN (income - bracket.from) * bracket.rate ELSE 0

\* One bracket's contribution to a bracket component.
BracketAmount(income, bracket) ==
    IF income > bracket.from
        THEN (IF bracket.to # 0
                 THEN Min(income, bracket.to) - bracket.from
                 ELSE income - bracket.from) * bracket.rate
        ELSE 0

RECURSIVE BracketsAmount(_, _, _)
\* The for loop over tax.brackets, from bracket i on.
BracketsAmount(income, brackets, i) ==
    IF i > Len(brackets) THEN 0
    ELSE BracketAmount(income, brackets[i]) + BracketsAmount(income, brackets, i + 1)

\* A flat rate on the whole base once it passes the threshold.
FlatRateAmountWholeBase(income, tax) ==
    IF income > tax.threshold THEN income * tax.rate ELSE 0

FlatRateAmount(income, tax) ==
    IF income > tax.threshold THEN (income - tax.threshold) * tax.rate ELSE 0

TaxAmount(income, tax) ==
    IF tax.type = "flatRate" THEN FlatRateAmount(income, tax)
    ELSE IF tax.type = "bracket" THEN BracketsAmount(income, tax.brackets, 1)
    ELSE 0

\* incomeTaxes.map(tax => ({ name, amount })) on the cached rules of a country
\* (every rule table has an incomeTaxes list, so the early return of [] for a
\* table without one is never taken).
calculateIncomeTaxes(income, c) ==
    LET incomeTaxes == RulesOf(c).incomeTaxes
    IN [i \in 1 .. Len(incomeTaxes) |->
            [name |-> incomeTaxes[i].name, amount |-> TaxAmount(income, incomeTaxes[i])]]

(***************************************************************************)
(* calculateWealthTax.                                                     *)
(***************************************************************************)
\* A flat rate on the whole wealth once it passes the threshold.
FlatWealthTaxWholeWealth(wealth, rule) ==
    IF wealth > rule.threshold THEN wealth * rule.rate ELSE 0

\* The else branch: wealth > threshold ? (wealth - threshold) * rate : 0
FlatWealthTax(wealth, rule) ==
    IF wealth > rule.threshold THEN (wealth - rule.threshold) * rule.rate ELSE 0

RECURSIVE WealthBracketsTax(_, _, _)
\* The for loop of the bracket branch, from bracket i on; it ends at the
\* first bracket that has an upper bound the wealth does not pass.
WealthBracketsTax(wealth, brackets, i) ==
    IF i > Len(brackets) THEN 0
    ELSE LET b == brackets[i]
             part == IF wealth > b.from
                         THEN (IF b.to # 0 THEN Min(wealth - b.from, b.to - b.from)
                               ELSE wealth - b.from) * b.rate
                         ELSE 0
         IN  IF b.to # 0 /\ wealth <= b.to THEN part
             ELSE part + WealthBracketsTax(wealth, brackets, i + 1)

\* On the cached rules of a country (no rules file has a personalAssetsTax
\* entry, so the rule is the wealthTax entry, if any).
calculateWealthTax(wealth, c) ==
    LET wealthTaxRule == RulesOf(c).wealthTax
    IN  IF wealthTaxRule = <<>> THEN 0
        ELSE IF wealthTaxRule[1].type = "bracket"
            THEN WealthBracketsTax(wealth, wealthTaxRule[1].brackets, 1)
        ELSE FlatWealthTax(wealth, wealthTaxRule[1])

(***************************************************************************)
(* calculatePensionContribution.  The outcome is a record: threw tells     *)
(* whether the call threw, value is the amount returned (in 1/10000),      *)
(* warned whether console.warn was called.                                 *)
(***************************************************************************)
\* A band test that leaves out the band's own maxAge.
BandMatchesBelow(age, band) == JsLt(Num(age), band.maxAge)

\* r => age <= r.maxAge
BandMatches(age, band) == JsLe(Num(age), band.maxAge)

RECURSIVE FindBand(_, _, _)
\* pensionRule.rates.find(...): the index of the first band that matches from
\* band i on, 0 when none does (find returns undefined).
FindBand(rates, age, i) ==
    IF i > Len(rates) THEN 0
    ELSE IF BandMatches(age, rates[i]) THEN i
    ELSE FindBand(rates, age, i + 1)

\* default: console.warn(...); return 0
UnknownPensionRule == [threw |-> FALSE, value |-> 0, warned |-> TRUE]

calculatePensionContribution(income, c, age) ==
    LET pensionRule == RulesOf(c).pensionContribution
    IN  IF pensionRule.type = "fixedRate"
            THEN [threw |-> FALSE, warned |-> FALSE,
                  value |-> income * (pensionRule.employeeRate + pensionRule.employerRate)]
        ELSE IF pensionRule.type = "ageBasedPercentage"
            THEN LET k == FindBand(pensionRule.rates, age, 1)
                 IN  IF k = 0
                        THEN [threw |-> TRUE, warned |-> FALSE, value |-> 0]
                        ELSE [threw |-> FALSE, warned |-> FALSE,
                              value |-> Min(income * pensionRule.rates[k].rate,
                                            pensionRule.annualCap * 10000)]
        ELSE UnknownPensionRule

(***************************************************************************)
(* calculateCapitalGainsTax.                                               *)
(***************************************************************************)
\* capitalGainsRule[type] || 0
CapitalGainsRate(capitalGainsRule, type) ==
    IF type \in DOMAIN capitalGainsRule THEN capitalGainsRule[type] ELSE 0

\* gains of a position as a number: undefined * taxRate is NaN
GainsOf(investment) ==
    IF investment.gains = {} THEN NaN ELSE CHOOSE g \in investment.gains : TRUE

RECURSIVE CapitalGainsFrom(_, _, _)
\* The forEach, from position i on: the sum of gains * taxRate (in 1/10000).
CapitalGainsFrom(invs, capitalGainsRule, i) ==
    IF i > Len(invs) THEN Num(0)
    ELSE JsAdd(JsMul(GainsOf(invs[i]), Num(CapitalGainsRate(capitalGainsRule, invs[i].type))),
               CapitalGainsFrom(invs, capitalGainsRule, i + 1))

calculateCapitalGainsTax(invs, c) ==
    CapitalGainsFrom(invs, RulesOf(c).capitalGainsTax, 1)

(***************************************************************************)
(* The rule cache.                                                         *)
(***************************************************************************)
\* A cache test that never finds an entry.
IsCachedNever(c) == FALSE

\* this.taxRules[country] is truthy
IsCached(c) == taxRules[c] # 0

NoCall == [op |-> "none"]

(***************************************************************************)
(* The market model.  Both methods read this.FinancialParameters, a field  *)
(* the constructor never sets (it sets taxRules and financialParameters),  *)
(* so the property read on undefined throws a TypeError in every call.     *)
(***************************************************************************)
Threw == [threw |-> TRUE]

calculatePensionReturns(pot) == Threw

calculateExpenses(expenses) == Threw

\* Nominal returns in percent: the two ends expectedReturn - volatility and
\* expectedReturn + volatility of the range Math.random() gives for a type.
ReturnSamples(type) ==
    CASE type = "indexFunds" -> {-3, 17}
      [] type = "individualShares" -> {-15, 35}

\* investment.gains = amount * nominalReturn, for every position; `rates` gives
\* the sampled nominal return of each position.
calculateInvestmentReturns(invs, rates) ==
    [i \in 1 .. Len(invs) |->
        [type |-> invs[i].type,
         amount |-> invs[i].amount,
         gains |-> {JsMul(invs[i].amount, JsDiv(Num(rates[i]), Num(100)))}]]

(***************************************************************************)
(* Profiles and life events.                                               *)
(***************************************************************************)
\* The countries of a run: one with a fixed-rate pension rule, one whose
\* pension rule has a type the evaluator does not know, one without rules.
RunCountries == {"Germany", "Arcadia", NoRulesCountry}

Kinds == {[event |-> "none", newCountry |-> ""], [event |-> "retire", newCountry |-> ""]}
            \cup {[event |-> "move", newCountry |-> c] : c \in RunCountries}

IncomeChoices == {{}, {80000}}

ExpensesChoices == {{}, {Num(42000)}}

LifeEvent(y, income, expenses, kind) ==
    [year |-> y, income |-> income, expenses |-> expenses,
     event |-> kind.event, newCountry |-> kind.newCountry]

\* lifeEvents[0] as far as the run reads it before the loop: absent (an empty
\* list), or its year, income and expenses.
FirstChoices ==
    {<<>>} \cup
    {<<[year |-> y, income |-> i, expenses |-> e]>> :
        y \in (StartYear - 1) .. (StartYear + MaxYears - 1),
        i \in IncomeChoices, e \in ExpensesChoices}

InitialInvestments ==
    << [type |-> "indexFunds", amount |-> Num(50000), gains |-> {}],
       [type |-> "individualShares", amount |-> Num(30000), gains |-> {}] >>

Profiles ==
    [initialCountry : RunCountries,
     targetYear : (StartYear - 1) .. (StartYear + MaxYears - 1),
     initialWealth : {1200000},
     initialPensionPot : {100000},
     initialInvestments : {InitialInvestments},
     first : FirstChoices]

\* profile.lifeEvents.find(event => event.year === year), for a schedule in
\* ascending year order with one event per year at most whose first event is
\* p.first: <<>> (no event) or <<event>>.
EventChoices(p, y) ==
    IF p.first = <<>> \/ y < p.first[1].year THEN {<<>>}
    ELSE IF y = p.first[1].year
        THEN {<<LifeEvent(y, p.first[1].income, p.first[1].expenses, k)>> : k \in Kinds}
    ELSE {<<>>} \cup
         {<<LifeEvent(y, i, e, k)>> : i \in IncomeChoices, e \in ExpensesChoices, k \in Kinds}

\* The income of the event, whether it gives one or not.
ResolveIncomeOfEvent(ev, prev) ==
    IF ev # <<>> THEN ev[1].income ELSE prev

\* lifeEvent && lifeEvent.income !== undefined ? lifeEvent.income : previousIncome
ResolveIncome(ev, prev) ==
    IF ev # <<>> /\ ev[1].income # {} THEN ev[1].income ELSE prev

\* Retirement decided by the current event alone.
RetiredAfterReset(retired, ev) ==
    ev # <<>> /\ ev[1].event = "retire"

\* if (lifeEvent.event === 'retire') isRetired = true
RetiredAfter(retired, ev) ==
    retired \/ (ev # <<>> /\ ev[1].event = "retire")

\* A Move event that leaves the country as it was.
CountryAfterStay(c, ev) == c

\* if (lifeEvent.event === 'move') country = lifeEvent.newCountry
CountryAfter(c, ev) ==
    IF ev # <<>> /\ ev[1].event = "move" THEN ev[1].newCountry ELSE c

(***************************************************************************)
(* simulateScenario.                                                       *)
(***************************************************************************)
NoFetches == [c \in Countries |-> 0]

\* The statements before the loop, for profile p.
RunStart(p) ==
    /\ profile' = p
    /\ results' = <<>>
    /\ remainingWealth' = Num(p.initialWealth)
    /\ investments' = p.initialInvestments
    /\ pensionPot' = Num(p.initialPensionPot)
    /\ isRetired' = FALSE
    /\ previousIncome' = IF p.first # <<>> THEN p.first[1].income ELSE {0}
    /\ previousExpenses' = IF p.first # <<>> THEN p.first[1].expenses ELSE {Num(0)}
    /\ country' = p.initialCountry
    /\ year' = StartYear
    /\ lifeEvent' = <<>>
    /\ loadResult' = FALSE
    /\ outcomes' = <<>>
    /\ retireYear' = 0
    /\ okFetches' = NoFetches
    /\ pc' = "loop"

\* A call of simulateScenario on this TaxSystem, when no call is running.
StartRun ==
    /\ pc = "idle"
    /\ \E p \in Profiles : RunStart(p)
    /\ UNCHANGED <<taxRules, pending, call, suspended>>

\* One loop iteration from the loop test to the await of loadCountryRules:
\* the event and income are resolved, expenses are resolved (calculateExpenses
\* throws when the event gives none), the event is applied, and
\* loadCountryRules either answers from the cache or issues its fetch.
YearHead ==
    /\ pc = "loop"
    /\ year <= profile.targetYear
    /\ \E ev \in EventChoices(profile, year) :
        LET income == ResolveIncome(ev, previousIncome)
            expenses == IF ev # <<>> /\ ev[1].expenses # {}
                            THEN [threw |-> FALSE, value |-> ev[1].expenses]
                            ELSE calculateExpenses(previousExpenses)
            newCountry == CountryAfter(country, ev)
        IN  /\ lifeEvent' = ev
            /\ previousIncome' = income
            /\ IF expenses.threw
                 THEN /\ pc' = "thrown"
                      /\ UNCHANGED <<previousExpenses, isRetired, country, retireYear,
                                     loadResult>>
                 ELSE /\ previousExpenses' = expenses.value
                      /\ isRetired' = RetiredAfter(isRetired, ev)
                      /\ retireYear' = IF retireYear = 0 /\ ev # <<>> /\ ev[1].event = "retire"
                                         THEN year ELSE retireYear
                      /\ country' = newCountry
                      /\ IF IsCached(newCountry)
                           THEN pc' = "resume" /\ loadResult' = TRUE
                           ELSE pc' = "fetching" /\ UNCHANGED loadResult
    /\ UNCHANGED <<taxRules, pending, call, profile, year, results, simVars,
                   outcomes, okFetches, suspended>>

\* The loop test fails: return results.
LoopExit ==
    /\ pc = "loop"
    /\ year > profile.targetYear
    /\ pc' = "done"
    /\ UNCHANGED <<taxRules, pending, call, profile, year, lifeEvent, results, simVars,
                   isRetired, previousIncome, previousExpenses, country, loadResult,
                   outcomes, retireYear, okFetches, suspended>>

\* The awaited fetch answers with a parseable body: the rules are stored and
\* loadCountryRules returns true.
FetchOk ==
    /\ pc = "fetching"
    /\ country \in RuleCountries
    /\ \E v \in Versions : taxRules' = [taxRules EXCEPT ![country] = v]
    /\ okFetches' = [okFetches EXCEPT ![country] = @ + 1]
    /\ loadResult' = TRUE
    /\ pc' = "resume"
    /\ UNCHANGED <<pending, call, profile, year, lifeEvent, results, simVars, isRetired,
                   previousIncome, previousExpenses, country, outcomes, retireYear,
                   suspended>>

\* A failed fetch that leaves an entry in the cache.
FetchFailStoring ==
    /\ pc = "fetching"
    /\ loadResult' = FALSE
    /\ pc' = "resume"
    /\ taxRules' = [taxRules EXCEPT ![country] = 1]
    /\ UNCHANGED <<pending, call, profile, year, lifeEvent, results, simVars,
                   isRetired, previousIncome, previousExpenses, country, outcomes,
                   retireYear, okFetches, suspended>>

\* The awaited fetch fails (network error, status not ok, unparseable body):
\* the catch block returns false.
FetchFail ==
    /\ pc = "fetching"
    /\ loadResult' = FALSE
    /\ pc' = "resume"
    /\ UNCHANGED <<taxRules, pending, call, profile, year, lifeEvent, results, simVars,
                   isRetired, previousIncome, previousExpenses, country, outcomes,
                   retireYear, okFetches, suspended>>

\* What the history keeps of a year that reached rule resolution: the year,
\* the country the rules were resolved for, whether they resolved, and the
\* kind of the year's life event ("absent" when the year had none).
Outcome(ok) ==
    [year |-> year, country |-> country, ok |-> ok,
     event |-> IF lifeEvent = <<>> THEN "absent" ELSE lifeEvent[1].event,
     newCountry |-> IF lifeEvent = <<>> THEN "" ELSE lifeEvent[1].newCountry]

\* A skip that takes back the retirement.
SkipYearDroppingRetire ==
    /\ pc = "resume"
    /\ ~loadResult
    /\ outcomes' = Append(outcomes, Outcome(FALSE))
    /\ year' = year + 1
    /\ pc' = "loop"
    /\ isRetired' = FALSE
    /\ UNCHANGED <<taxRules, pending, call, profile, lifeEvent, results, simVars,
                   previousIncome, previousExpenses, country, loadResult,
                   retireYear, okFetches, suspended>>

\* loadCountryRules returned false: the year is skipped (continue).
SkipYear ==
    /\ pc = "resume"
    /\ ~loadResult
    /\ outcomes' = Append(outcomes, Outcome(FALSE))
    /\ year' = year + 1
    /\ pc' = "loop"
    /\ UNCHANGED <<taxRules, pending, call, profile, lifeEvent, results, simVars,
                   isRetired, previousIncome, previousExpenses, country, loadResult,
                   retireYear, okFetches, suspended>>

\* Positions shared by the calls: what one call writes, the other holds.
PositionsOfOtherShared(theirs, written) == written

\* investments = profile.initialInvestments.map(inv => ({ ...inv })): the
\* positions of a call are copies of its own, so what another call writes
\* into its positions leaves them as they are.
PositionsOfOther(theirs, written) == theirs

\* Positions that are the profile's own objects: what the call writes into
\* them, the profile holds.
PositionsOfProfileAliased(theirs, written) == written

\* investments = profile.initialInvestments.map(inv => ({ ...inv })): the
\* call writes gains and amounts into copies, so the positions of the
\* profile stay as they are.
PositionsOfProfile(theirs, written) == theirs

\* loadCountryRules returned true: the rest of the iteration runs.  The gains
\* are sampled, then calculatePensionReturns throws, which ends the call.
YearBody ==
    /\ pc = "resume"
    /\ loadResult
    /\ outcomes' = Append(outcomes, Outcome(TRUE))
    /\ \E r1 \in ReturnSamples(investments[1].type),
          r2 \in ReturnSamples(investments[2].type) :
            investments' = calculateInvestmentReturns(investments, <<r1, r2>>)
    /\ suspended' = [i \in DOMAIN suspended |->
                        [suspended[i] EXCEPT
                            !.investments = PositionsOfOther(@, investments')]]
    /\ profile' = [profile EXCEPT
                        !.initialInvestments = PositionsOfProfile(@, investments')]
    /\ calculatePensionReturns(pensionPot).threw
    /\ pc' = "thrown"
    /\ UNCHANGED <<taxRules, pending, call, year, lifeEvent, results,
                   remainingWealth, pensionPot, isRetired, previousIncome,
                   previousExpenses, country, loadResult, retireYear, okFetches>>

\* The values the run variables hold while no simulateScenario call is running
\* (they are locals of the call, and stand for nothing then).
NoProfile ==
    [initialCountry |-> "Germany", targetYear |-> StartYear - 1,
     initialWealth |-> 1200000, initialPensionPot |-> 100000,
     initialInvestments |-> InitialInvestments, first |-> <<>>]

NoRun ==
    /\ pc = "idle"
    /\ profile = NoProfile
    /\ year = StartYear
    /\ lifeEvent = <<>>
    /\ results = <<>>
    /\ remainingWealth = Num(NoProfile.initialWealth)
    /\ investments = NoProfile.initialInvestments
    /\ pensionPot = Num(NoProfile.initialPensionPot)
    /\ isRetired = FALSE
    /\ previousIncome = {0}
    /\ previousExpenses = {Num(0)}
    /\ country = NoProfile.initialCountry
    /\ loadResult = FALSE
    /\ outcomes = <<>>
    /\ retireYear = 0
    /\ okFetches = NoFetches

\* The promise of a finished call has settled (fulfilled with results, or
\* rejected with the error thrown): its locals are gone.
Settle ==
    /\ pc \in {"done", "thrown"}
    /\ pc' = "idle"
    /\ profile' = NoProfile
    /\ year' = StartYear
    /\ lifeEvent' = <<>>
    /\ results' = <<>>
    /\ remainingWealth' = Num(NoProfile.initialWealth)
    /\ investments' = NoProfile.initialInvestments
    /\ pensionPot' = Num(NoProfile.initialPensionPot)
    /\ isRetired' = FALSE
    /\ previousIncome' = {0}
    /\ previousExpenses' = {Num(0)}
    /\ country' = NoProfile.initialCountry
    /\ loadResult' = FALSE
    /\ outcomes' = <<>>
    /\ retireYear' = 0
    /\ okFetches' = NoFetches
    /\ UNCHANGED <<taxRules, pending, call, suspended>>

\* new TaxSystem(financialParameters): an empty rule cache, nothing running.
Init ==
    /\ taxRules = [c \in Countries |-> 0]
    /\ pending = [c \in Countries |-> 0]
    /\ call = NoCall
    /\ suspended = <<>>
    /\ NoRun

Next ==
    \/ StartRun
    \/ Settle
    \/ YearHead
    \/ LoopExit
    \/ FetchOk
    \/ FetchFail
    \/ SkipYear
    \/ YearBody

Spec == Init /\ [][Next]_vars

(***************************************************************************)
(* Two simulateScenario calls on one TaxSystem.  The host starts a second  *)
(* call while the first waits at an await of the loop; from then on the    *)
(* two take turns at their awaits.  The run variables hold the locals of   *)
(* the call that is executing, `suspended` those of the call that waits.   *)
(***************************************************************************)
\* The locals of the executing call (and its history).
Locals ==
    [pc |-> pc, profile |-> profile, year |-> year, lifeEvent |-> lifeEvent,
     results |-> results, remainingWealth |-> remainingWealth,
     investments |-> investments, pensionPot |-> pensionPot, isRetired |-> isRetired,
     previousIncome |-> previousIncome, previousExpenses |-> previousExpenses,
     country |-> country, loadResult |-> loadResult, outcomes |-> outcomes,
     retireYear |-> retireYear, okFetches |-> okFetches]

\* The call whose locals are l takes up where it waited.
Continue(l) ==
    /\ pc' = l.pc
    /\ profile' = l.profile
    /\ year' = l.year
    /\ lifeEvent' = l.lifeEvent
    /\ results' = l.results
    /\ remainingWealth' = l.remainingWealth
    /\ investments' = l.investments
    /\ pensionPot' = l.pensionPot
    /\ isRetired' = l.isRetired
    /\ previousIncome' = l.previousIncome
    /\ previousExpenses' = l.previousExpenses
    /\ country' = l.country
    /\ loadResult' = l.loadResult
    /\ outcomes' = l.outcomes
    /\ retireYear' = l.retireYear
    /\ okFetches' = l.okFetches

\* The profiles of the calls that run two at a time: one year long, the
\* year's event giving the expenses.
TwoRunProfiles ==
    {p \in Profiles : /\ p.targetYear = StartYear
                      /\ p.first # <<>>
                      /\ p.first[1].year = StartYear
                      /\ p.first[1].expenses # {}}

\* The executing call is at an await of the loop: await loadCountryRules,
\* with its fetch in flight or answered.
AtAwait == pc \in {"fetching", "resume"}

StartFirstRun ==
    /\ pc = "idle"
    /\ suspended = <<>>
    /\ \E p \in TwoRunProfiles : RunStart(p)
    /\ UNCHANGED <<taxRules, pending, call, suspended>>

\* While the only call waits, the host calls simulateScenario again: the new
\* call executes up to its first await.
StartSecondRun ==
    /\ AtAwait
    /\ suspended = <<>>
    /\ suspended' = <<Locals>>
    /\ \E p \in TwoRunProfiles : RunStart(p)
    /\ UNCHANGED <<taxRules, pending, call>>

\* The executing call waits at its await and the other call goes on.
SwitchRun ==
    /\ AtAwait
    /\ suspended # <<>>
    /\ suspended' = <<Locals>>
    /\ Continue(suspended[1])
    /\ UNCHANGED <<taxRules, pending, call>>

\* The executing call has returned or thrown: its locals are gone, and the
\* other call goes on.
FinishRun ==
    /\ pc \in {"done", "thrown"}
    /\ suspended # <<>>
    /\ suspended' = <<>>
    /\ Continue(suspended[1])
    /\ UNCHANGED <<taxRules, pending, call>>

\* The only call has returned or thrown.
SettleLast ==
    /\ suspended = <<>>
    /\ Settle

NextTwo ==
    \/ StartFirstRun
    \/ StartSecondRun
    \/ SwitchRun
    \/ FinishRun
    \/ SettleLast
    \/ YearHead
    \/ LoopExit
    \/ FetchOk
    \/ FetchFail
    \/ SkipYear
    \/ YearBody

SpecTwo == Init /\ [][NextTwo]_vars

(***************************************************************************)
(* The evaluator called on a TaxSystem by its host.                        *)
(***************************************************************************)
Offsets == -2 .. 2

\* The bases the evaluator is called with for a component: those around its
\* threshold or around every bound of its brackets.
BasesOfTax(tax) ==
    IF tax.type = "flatRate" THEN {tax.threshold + d : d \in Offsets}
    ELSE UNION {{tax.brackets[k].from + d : d \in Offsets} \cup
                {tax.brackets[k].to + d : d \in Offsets} : k \in 1 .. Len(tax.brackets)}

Bases(c) ==
    IF c \in RuleCountries
        THEN UNION {BasesOfTax(RulesOf(c).incomeTaxes[i]) :
                        i \in 1 .. Len(RulesOf(c).incomeTaxes)}
        ELSE {0}

PendingTotal ==
    pending["Germany"] + pending["USA"] + pending["France"] + pending["Ireland"]
        + pending["Arcadia"] + pending[NoRulesCountry]

\* taxSystem.calculateIncomeTaxes(income, c).  Its first statement calls
\* loadCountryRules without awaiting it: the call issues a fetch when c is not
\* cached, and the promise it returns is truthy, so the early return is never
\* taken.  The next statement reads this.taxRules[c].incomeTaxes, which throws
\* a TypeError while c is not cached.
CallIncomeTaxes ==
    /\ pc = "idle"
    /\ call = NoCall
    /\ \E c \in Countries : \E income \in Bases(c) :
        IF IsCached(c)
            THEN /\ call' = [op |-> "calculateIncomeTaxes", income |-> income,
                             country |-> c, threw |-> FALSE,
                             result |-> calculateIncomeTaxes(income, c)]
                 /\ UNCHANGED pending
            ELSE /\ PendingTotal < MaxPending
                 /\ pending' = [pending EXCEPT ![c] = @ + 1]
                 /\ call' = [op |-> "calculateIncomeTaxes", income |-> income,
                             country |-> c, threw |-> TRUE, result |-> <<>>]
    /\ UNCHANGED <<taxRules, runVars>>

\* The first statement of an evaluator operation, this.loadCountryRules(c)
\* not awaited: a fetch is issued when c is not cached.
IssueLoad(c) ==
    IF IsCached(c) THEN UNCHANGED pending
    ELSE /\ PendingTotal < MaxPending
         /\ pending' = [pending EXCEPT ![c] = @ + 1]

\* What an evaluator call on country c gives: `outcome` when c is cached, a
\* TypeError (the read of a property of this.taxRules[c], undefined) when not.
Answer(c, outcome) ==
    IF IsCached(c) THEN outcome ELSE [threw |-> TRUE, result |-> <<>>]

WealthBases(c) ==
    IF c \in RuleCountries /\ RulesOf(c).wealthTax # <<>>
        THEN {RulesOf(c).wealthTax[1].threshold + d : d \in Offsets} \cup {-1000, 0, 1200000}
        ELSE {0, 1200000}

\* taxSystem.calculateWealthTax(wealth, c)
CallWealthTax ==
    /\ pc = "idle"
    /\ call = NoCall
    /\ \E c \in Countries : \E wealth \in WealthBases(c) :
        LET a == Answer(c, [threw |-> FALSE, result |-> calculateWealthTax(wealth, c)])
        IN  /\ IssueLoad(c)
            /\ call' = [op |-> "calculateWealthTax", wealth |-> wealth, country |-> c,
                        cached |-> IsCached(c), threw |-> a.threw, result |-> a.result]
    /\ UNCHANGED <<taxRules, runVars>>

IsAgeBased(c) ==
    c \in RuleCountries /\ RulesOf(c).pensionContribution.type = "ageBasedPercentage"

\* Ages at and above every bounded band, and beyond them.
PensionAges(c) ==
    IF IsAgeBased(c)
        THEN LET rates == RulesOf(c).pensionContribution.rates
             IN  {-1, 0, 120} \cup
                 UNION {{rates[k].maxAge.num, rates[k].maxAge.num + 1} :
                            k \in {j \in 1 .. Len(rates) : IsFinite(rates[j].maxAge)}}
        ELSE {30}

\* Incomes of either sign, and for an age-based rule the incomes just below
\* and above the one at which the band of the age reaches the cap.
PensionIncomesFor(c, age) ==
    {-1000, 0, 80000, 600000} \cup
    (IF IsAgeBased(c)
        THEN LET rule == RulesOf(c).pensionContribution
                 k == FindBand(rule.rates, age, 1)
             IN  IF k = 0 THEN {}
                 ELSE {(rule.annualCap * 10000) \div rule.rates[k].rate,
                       (rule.annualCap * 10000) \div rule.rates[k].rate + 1}
        ELSE {})

\* taxSystem.calculatePensionContribution(income, c, age)
CallPensionContribution ==
    /\ pc = "idle"
    /\ call = NoCall
    /\ \E c \in Countries : \E age \in PensionAges(c) : \E income \in PensionIncomesFor(c, age) :
        LET o == calculatePensionContribution(income, c, age)
            a == Answer(c, [threw |-> o.threw, result |-> <<o.value, o.warned>>])
        IN  /\ IssueLoad(c)
            /\ call' = [op |-> "calculatePensionContribution", income |-> income,
                        age |-> age, country |-> c, cached |-> IsCached(c),
                        threw |-> a.threw, result |-> a.result]
    /\ UNCHANGED <<taxRules, runVars>>

\* Gains of a position handed to calculateCapitalGainsTax: none yet
\* (undefined), a loss, a gain.
GainsChoices == {{}, {Num(-1500)}, {Num(8500)}}

PositionsChoices ==
    {<<>>} \cup
    {<< [type |-> "indexFunds", amount |-> Num(50000), gains |-> g1],
        [type |-> "individualShares", amount |-> Num(30000), gains |-> g2] >> :
        g1 \in GainsChoices, g2 \in GainsChoices}

\* taxSystem.calculateCapitalGainsTax(investments, c)
CallCapitalGainsTax ==
    /\ pc = "idle"
    /\ call = NoCall
    /\ \E c \in Countries : \E invs \in PositionsChoices :
        LET a == Answer(c, [threw |-> FALSE, result |-> calculateCapitalGainsTax(invs, c)])
        IN  /\ IssueLoad(c)
            /\ call' = [op |-> "calculateCapitalGainsTax", investments |-> invs,
                        country |-> c, cached |-> IsCached(c),
                        threw |-> a.threw, result |-> a.result]
    /\ UNCHANGED <<taxRules, runVars>>

\* What the call recorded in rec gives when it is made now.
Reevaluate(rec) ==
    LET c == rec.country
    IN  CASE rec.op = "calculateIncomeTaxes" ->
                Answer(c, [threw |-> FALSE, result |-> calculateIncomeTaxes(rec.income, c)])
          [] rec.op = "calculateWealthTax" ->
                Answer(c, [threw |-> FALSE, result |-> calculateWealthTax(rec.wealth, c)])
          [] rec.op = "calculatePensionContribution" ->
                LET o == calculatePensionContribution(rec.income, c, rec.age)
                IN  Answer(c, [threw |-> o.threw, result |-> <<o.value, o.warned>>])
          [] rec.op = "calculateCapitalGainsTax" ->
                Answer(c, [threw |-> FALSE,
                           result |-> calculateCapitalGainsTax(rec.investments, c)])

\* The host makes the call it has just made once more, with the same
\* arguments, and holds both outcomes.
CallAgain ==
    /\ pc = "idle"
    /\ call # NoCall
    /\ call.op # "repeat"
    /\ IssueLoad(call.country)
    /\ call' = [op |-> "repeat", country |-> call.country,
                first |-> [threw |-> call.threw, result |-> call.result],
                second |-> Reevaluate(call), what |-> call.op]
    /\ UNCHANGED <<taxRules, runVars>>

\* A fetch nobody awaits answers with a parseable body: the rules are stored.
PendingFetchOk ==
    /\ \E c \in RuleCountries :
        /\ pending[c] > 0
        /\ pending' = [pending EXCEPT ![c] = @ - 1]
        /\ \E v \in Versions : taxRules' = [taxRules EXCEPT ![c] = v]
    /\ UNCHANGED <<runVars, call>>

\* A fetch nobody awaits fails: the catch block swallows the error.
PendingFetchFail ==
    /\ \E c \in Countries :
        /\ pending[c] > 0
        /\ pending' = [pending EXCEPT ![c] = @ - 1]
    /\ UNCHANGED <<taxRules, runVars, call>>

\* The host has taken what the call returned or threw.
TakeResult ==
    /\ call # NoCall
    /\ call' = NoCall
    /\ UNCHANGED <<taxRules, pending, runVars>>

NextEval ==
    \/ CallIncomeTaxes
    \/ CallWealthTax
    \/ CallPensionContribution
    \/ CallCapitalGainsTax
    \/ CallAgain
    \/ TakeResult
    \/ PendingFetchOk
    \/ PendingFetchFail

SpecEval == Init /\ [][NextEval]_vars

(***************************************************************************)
(* The wealth update of a loop iteration (the if/else that follows the     *)
(* computation of netIncome), applied to the values it reads.              *)
(***************************************************************************)
\* investment.amount += surplus * (investment.amount / remainingWealth),
\* for every position, with remainingWealth already holding the surplus.
Reinvest(invs, surplus, wealth) ==
    [i \in 1 .. Len(invs) |->
        [invs[i] EXCEPT !.amount = JsAdd(@, JsMul(surplus, JsDiv(@, wealth)))]]

WealthUpdate(wealth, invs, netIncome, expenses) ==
    IF netIncome < expenses
        THEN [remainingWealth |-> JsAdd(wealth, Num(0 - (expenses - netIncome))),
              investments |-> invs]
        ELSE LET surplus == Num(netIncome - expenses)
                 updated == JsAdd(wealth, surplus)
             IN  [remainingWealth |-> updated,
                  investments |-> Reinvest(invs, surplus, updated)]

\* Amounts in thousands of currency units.
WealthChoices == {-10, -1, 0, 1, 80, 1200}

NetIncomeChoices == {-5, 0, 1, 10, 41, 42, 43, 60}

ExpensesAmounts == {0, 42}

AmountChoices == {0, 30, 50}

\* The iteration stands before the wealth update, netIncome and expenses
\* being computed.
InitWealthUpdate ==
    /\ taxRules = [c \in Countries |-> 0]
    /\ pending = [c \in Countries |-> 0]
    /\ profile = NoProfile
    /\ year = StartYear
    /\ lifeEvent = <<>>
    /\ results = <<>>
    /\ pensionPot = Num(NoProfile.initialPensionPot)
    /\ isRetired = FALSE
    /\ previousIncome = {0}
    /\ previousExpenses = {Num(0)}
    /\ country = NoProfile.initialCountry
    /\ loadResult = TRUE
    /\ outcomes = <<>>
    /\ retireYear = 0
    /\ okFetches = NoFetches
    /\ pc = "wealthUpdate"
    /\ suspended = <<>>
    /\ \E w \in WealthChoices : remainingWealth = Num(w)
    /\ \E a1 \in AmountChoices, a2 \in AmountChoices :
          investments = << [type |-> "indexFunds", amount |-> Num(a1), gains |-> {Num(0)}],
                           [type |-> "individualShares", amount |-> Num(a2), gains |-> {Num(0)}] >>
    /\ \E n \in NetIncomeChoices, e \in ExpensesAmounts :
          call = [op |-> "wealthUpdate", netIncome |-> n, expenses |-> e,
                  wealthBefore |-> remainingWealth, investmentsBefore |-> investments]

ApplyWealthUpdate ==
    /\ pc = "wealthUpdate"
    /\ LET after == WealthUpdate(remainingWealth, investments, call.netIncome, call.expenses)
       IN  /\ remainingWealth' = after.remainingWealth
           /\ investments' = after.investments
    /\ pc' = "wealthUpdated"
    /\ UNCHANGED <<taxRules, pending, call, profile, year, lifeEvent, results, pensionPot,
                   isRetired, previousIncome, previousExpenses, country, loadResult,
                   outcomes, retireYear, okFetches, suspended>>

SpecWealthUpdate == InitWealthUpdate /\ [][ApplyWealthUpdate]_vars

(***************************************************************************)
(* Properties of a simulateScenario call.                                  *)
(***************************************************************************)
Finished == pc \in {"done", "thrown"}

IsMove(ev) == ev # <<>> /\ ev[1].event = "move"

\* The years of this call whose country rules resolved, and those skipped.
ResolvedYears == {outcomes[i].year : i \in {k \in 1 .. Len(outcomes) : outcomes[k].ok}}

SkippedYears == {outcomes[i].year : i \in {k \in 1 .. Len(outcomes) : ~outcomes[k].ok}}

ResultsFor(y) == {j \in 1 .. Len(results) : results[j].year = y}

\* C1: with a Retire event at year R and a nonzero pension pot, the finished
\* call holds a YearResult for every year whose rules resolved, with
\* pensionIncome = 0 in the years before R and pensionIncome > 0 from R on.
C1_RetirePensionIncome ==
    (Finished /\ retireYear # 0 /\ profile.initialPensionPot # 0) =>
        \A y \in ResolvedYears :
            \E j \in ResultsFor(y) :
                IF y < retireYear
                    THEN NumEq(results[j].pensionIncome, Num(0))
                    ELSE IsFinite(results[j].pensionIncome)
                         /\ results[j].pensionIncome.num > 0

\* C2: after a Move event at year Y, the finished call holds, for every year
\* from Y on whose rules resolved (up to the next Move), a YearResult that
\* reports the country moved to; and no YearResult exists for a year whose
\* rules did not resolve.
C2_MoveReportsNewCountry ==
    Finished =>
        /\ \A i \in 1 .. Len(outcomes) : \A k \in i .. Len(outcomes) :
              ( /\ outcomes[i].event = "move"
                /\ \A m \in (i + 1) .. k : outcomes[m].event # "move"
                /\ outcomes[k].ok )
              => \E j \in ResultsFor(outcomes[k].year) :
                    results[j].country = outcomes[i].newCountry
        /\ \A j \in 1 .. Len(results) : results[j].year \in ResolvedYears

\* C3: once isRetired is true it stays true for the rest of the call, whatever
\* events follow.
C3_RetiredIsTerminal ==
    [][(isRetired /\ pc' # "idle") => isRetired']_vars

\* A retired run that has since processed a Move event and now an event
\* without a kind.
C3_Witness ==
    /\ isRetired
    /\ pc \in {"fetching", "resume"}
    /\ year = retireYear + 2
    /\ lifeEvent # <<>>
    /\ lifeEvent[1].event = "none"
    /\ Len(outcomes) > 0
    /\ outcomes[Len(outcomes)].event = "move"

\* C4: the call ends by returning after the year targetYear, and results
\* holds exactly one YearResult per year whose rules resolved, none for a
\* skipped year, in ascending year order: targetYear - start year + 1 minus
\* the skipped years in all, none when targetYear is before the start year.
C4_OneResultPerResolvedYear ==
    Finished =>
        /\ pc = "done"
        /\ year = (IF profile.targetYear < StartYear THEN StartYear
                   ELSE profile.targetYear + 1)
        /\ \A y \in ResolvedYears : Cardinality(ResultsFor(y)) = 1
        /\ \A y \in SkippedYears : ResultsFor(y) = {}
        /\ \A j \in 1 .. (Len(results) - 1) : results[j].year < results[j + 1].year
        /\ Len(results) = (IF profile.targetYear < StartYear THEN 0
                           ELSE profile.targetYear - StartYear + 1
                                - Cardinality(SkippedYears))

\* The last year that reached rule resolution was skipped.
LastSkipped ==
    /\ Len(outcomes) > 0
    /\ ~outcomes[Len(outcomes)].ok

C6_CachedRulesAreKept ==
    /\ [](\A c \in Countries : okFetches[c] <= 1)
    /\ [][\A c \in Countries :
            taxRules[c] # 0 =>
                /\ taxRules'[c] = taxRules[c]
                /\ (pc = "loop" /\ pc' \in {"fetching", "resume"} /\ country' = c)
                      => (pc' = "resume" /\ loadResult')]_vars

\* loadCountryRules has answered true for a country this call did not fetch:
\* the rules were cached by an earlier call.
C6_Witness ==
    /\ pc = "resume"
    /\ loadResult
    /\ taxRules[country] # 0
    /\ okFetches[country] = 0

\* C7: the finished call holds, for every year whose rules resolved, a
\* YearResult whose remainingWealth is the wealth before that year (the
\* initialWealth for the first one) plus netIncome minus expenses.
C7_WealthRecorded ==
    Finished =>
        \A y \in ResolvedYears :
            \E j \in ResultsFor(y) :
                LET before == IF j = 1 THEN Num(profile.initialWealth)
                              ELSE results[j - 1].remainingWealth
                IN  NumEq(results[j].remainingWealth,
                          JsAdd(before, JsAdd(results[j].netIncome,
                                              JsMul(Num(-1), results[j].expenses))))

\* The pension rule of c is of a type calculatePensionContribution has no
\* case for.
HasUnknownPensionRule(c) ==
    /\ c \in RuleCountries
    /\ RulesOf(c).pensionContribution.type \notin {"fixedRate", "ageBasedPercentage"}

\* x - y
JsSub(x, y) == JsAdd(x, JsMul(Num(-1), y))

\* lo <= x <= hi
Within(x, lo, hi) == JsLe(lo, x) /\ JsLe(x, hi)

\* rate percent of x, rate in 1/1000
PerMille(x, rate) == JsMul(x, [num |-> rate, den |-> 1000])

\* C13: a year whose rules resolved for a country with a pension rule of
\* unknown type is processed to its end: the call goes on with the next
\* year, a YearResult for the year has been appended, and the pension pot
\* has grown by its sampled return alone (0.03 to 0.07 of the pot), the
\* contribution being zero.
C13_UnknownPensionRuleYearProcessed ==
    [][(pc = "resume" /\ loadResult /\ HasUnknownPensionRule(country)) =>
            /\ pc' = "loop"
            /\ year' = year + 1
            /\ Len(results') = Len(results) + 1
            /\ results'[Len(results')].year = year
            /\ Within(JsSub(pensionPot', pensionPot),
                      PerMille(pensionPot, 30), PerMille(pensionPot, 70))]_vars

\* The loop is in a year of the call: the year's event has been looked up
\* and its income resolved.
InYear == pc \in {"fetching", "resume", "thrown"}

HasIncome(ev) == ev # <<>> /\ ev[1].income # {}

HasExpenses(ev) == ev # <<>> /\ ev[1].expenses # {}

\* C16: the income a year resolves is the income the year's event gives; in
\* a year without an event, or whose event gives no income, it is the income
\* of the year before, as it was; and nothing else in the year changes it.
C16_IncomeCarriedForward ==
    [][/\ (pc = "loop" /\ InYear') =>
            (IF HasIncome(lifeEvent')
                THEN previousIncome' = lifeEvent'[1].income
                ELSE previousIncome' = previousIncome)
       /\ (pc # "loop" /\ pc' # "idle" /\ pc' # "loop" /\ pc # "idle")
            => previousIncome' = previousIncome
       /\ (pc \in {"fetching", "resume"} /\ pc' = "loop")
            => previousIncome' = previousIncome]_vars

\* The third year of a call whose first event gave no income: an earlier
\* year's event gave 80000, and this year's event, which gives none, carries
\* it.
C16_Witness ==
    /\ pc \in {"fetching", "resume"}
    /\ profile.first # <<>>
    /\ profile.first[1].income = {}
    /\ year = StartYear + 2
    /\ lifeEvent # <<>>
    /\ lifeEvent[1].income = {}
    /\ previousIncome = {80000}

\* C17: a year whose event gives no expenses (or that has no event) goes on
\* to rule resolution with the expenses of the year before times (1 + r) for
\* an r between 0.015 and 0.025; a year whose event gives expenses goes on
\* with those, which are the base of the next year.
C17_ExpensesInflated ==
    [][(pc = "loop" /\ year <= profile.targetYear) =>
            /\ pc' \in {"fetching", "resume"}
            /\ IF HasExpenses(lifeEvent')
                 THEN previousExpenses' = lifeEvent'[1].expenses
                 ELSE \E before \in previousExpenses : \E now \in previousExpenses' :
                        Within(now, PerMille(before, 1015), PerMille(before, 1025))]_vars

\* C18: a year whose rules resolved is processed to its end, retired or not:
\* a YearResult is appended, and the pension pot after the year is the pot
\* before plus its sampled return (0.03 to 0.07 of the pot) plus the year's
\* contribution, which is not negative for an income that is not; the
\* pension income recorded for the year has not been taken off the pot.
C18_PotGrowsByReturnAndContribution ==
    [][(pc = "resume" /\ loadResult) =>
            /\ pc' = "loop"
            /\ Len(results') = Len(results) + 1
            /\ JsLe(PerMille(pensionPot, 1030), pensionPot')
            /\ HasUnknownPensionRule(country)
                  => JsLe(pensionPot', PerMille(pensionPot, 1070))]_vars

\* C19: a year whose rules resolved is processed to its end; sampling the
\* returns leaves every position's amount as it was; then, in a deficit year
\* (netIncome < expenses) the amounts stay, and in a surplus year each grows
\* by surplus * amount / updated wealth.
C19_SurplusReinvested ==
    [][(pc = "resume" /\ loadResult) =>
            /\ pc' = "loop"
            /\ Len(results') = Len(results) + 1
            /\ LET r == results'[Len(results')]
                   surplus == JsSub(r.netIncome, r.expenses)
               IN  \A i \in 1 .. Len(investments) :
                      investments'[i].amount =
                         IF JsLt(r.netIncome, r.expenses) THEN investments[i].amount
                         ELSE JsAdd(investments[i].amount,
                                    JsMul(surplus, JsDiv(investments[i].amount,
                                                         r.remainingWealth)))]_vars

\* C20: skipping a year (its rules did not resolve) leaves wealth, positions,
\* pension pot and results as they are, and keeps what the year's event has
\* set: the retired flag, which stays for all later years of the call, and
\* the income and expenses resolved for the year, which the next year carries.
C20_SkippedYearKeepsEventEffects ==
    /\ [][(pc = "resume" /\ ~loadResult /\ pc' = "loop") =>
            /\ year' = year + 1
            /\ remainingWealth' = remainingWealth
            /\ investments' = investments
            /\ pensionPot' = pensionPot
            /\ results' = results
            /\ isRetired' = isRetired
            /\ previousIncome' = previousIncome
            /\ previousExpenses' = previousExpenses]_vars
    /\ [][(pc = "loop" /\ pc' \in {"fetching", "resume"}) =>
            /\ remainingWealth' = remainingWealth
            /\ investments' = investments
            /\ pensionPot' = pensionPot
            /\ results' = results]_vars
    /\ []((pc = "resume" /\ ~loadResult) =>
            /\ (lifeEvent # <<>> /\ lifeEvent[1].event = "retire") => isRetired
            /\ HasIncome(lifeEvent) => previousIncome = lifeEvent[1].income
            /\ HasExpenses(lifeEvent) => previousExpenses = lifeEvent[1].expenses)
    /\ []((retireYear # 0 /\ pc \in {"loop", "fetching", "resume"}) => isRetired)

\* The year after a skipped year that had a Retire event with income 80000
\* and expenses 42000: retired, about to be skipped too, its event giving no
\* income, so that the skipped year's income is the one carried.
C20_Witness ==
    /\ pc = "resume"
    /\ ~loadResult
    /\ LastSkipped
    /\ outcomes[Len(outcomes)].event = "retire"
    /\ outcomes[Len(outcomes)].year = StartYear
    /\ year = StartYear + 1
    /\ isRetired
    /\ lifeEvent # <<>>
    /\ lifeEvent[1].event = "none"
    /\ lifeEvent[1].income = {}
    /\ profile.first # <<>>
    /\ profile.first[1].year = StartYear
    /\ profile.first[1].income = {80000}
    /\ previousIncome = {80000}
    /\ results = <<>>

\* C21: a loadCountryRules(c) that fails returns false and leaves the cache
\* as it was, c without an entry; the next load of c in the call issues a
\* fetch again; and a load that succeeds stores the rules of c, and of c
\* alone, and returns true.
C21_FailedLoadLeavesCache ==
    /\ [][(pc = "fetching" /\ pc' = "resume" /\ ~loadResult') =>
            taxRules' = taxRules]_vars
    /\ []((pc = "resume" /\ ~loadResult) => taxRules[country] = 0)
    /\ [][(/\ pc = "loop"
           /\ LastSkipped
           /\ pc' \in {"fetching", "resume"}
           /\ country' = outcomes[Len(outcomes)].country) => pc' = "fetching"]_vars
    /\ [][(pc = "fetching" /\ pc' = "resume" /\ loadResult') =>
            /\ taxRules'[country] # 0
            /\ \A c \in Countries \ {country} : taxRules'[c] = taxRules[c]]_vars

\* The third year of a call that stays in its first country: the loads of
\* the first two years failed, the fetch of the third has succeeded.
C21_Witness ==
    /\ pc = "resume"
    /\ loadResult
    /\ Len(outcomes) = 2
    /\ ~outcomes[1].ok
    /\ ~outcomes[2].ok
    /\ outcomes[1].country = profile.initialCountry
    /\ outcomes[2].country = profile.initialCountry
    /\ country = profile.initialCountry
    /\ okFetches[country] = 1
    /\ taxRules[country] # 0

\* C22: no step of a call changes the profile it was given: the profile is,
\* to the end of the call, one whose positions have their amounts and no
\* gains; and a call starts from its profile alone, so that another call on
\* that profile starts from the same state.
C22_ProfileUntouched ==
    /\ [][(pc # "idle" /\ pc' # "idle") => profile' = profile]_vars
    /\ [](pc # "idle" =>
            /\ profile \in Profiles
            /\ \A i \in 1 .. Len(profile.initialInvestments) :
                  /\ profile.initialInvestments[i].gains = {}
                  /\ profile.initialInvestments[i].amount = InitialInvestments[i].amount)
    /\ []((pc = "loop" /\ year = StartYear) =>
            /\ remainingWealth = Num(profile.initialWealth)
            /\ pensionPot = Num(profile.initialPensionPot)
            /\ investments = profile.initialInvestments
            /\ country = profile.initialCountry
            /\ ~isRetired
            /\ results = <<>>
            /\ previousIncome = (IF profile.first # <<>> THEN profile.first[1].income
                                 ELSE {0}))

\* The third year of a call has sampled its gains and thrown, the call being
\* retired and in another country than the profile's by then: the positions
\* of the call hold gains, those of the profile none.
C22_Witness ==
    /\ pc = "thrown"
    /\ year = StartYear + 2
    /\ Len(outcomes) = 3
    /\ outcomes[3].ok
    /\ isRetired
    /\ country # profile.initialCountry
    /\ investments[1].gains # {}
    /\ investments[2].gains # {}
    /\ profile.initialInvestments[1].gains = {}
    /\ profile.initialInvestments[2].gains = {}
    /\ profile.initialCountry = "Germany"

(***************************************************************************)
(* Properties of two simulateScenario calls on one TaxSystem.              *)
(***************************************************************************)
\* The years of a call's history that had an event of a kind.
YearsWith(l, kind) == {k \in 1 .. Len(l.outcomes) : l.outcomes[k].event = kind}

Last(S) == CHOOSE k \in S : \A j \in S : j <= k

\* The year's body has run up to its throw.
ThrownInBody(l) ==
    /\ l.pc = "thrown"
    /\ Len(l.outcomes) > 0
    /\ l.outcomes[Len(l.outcomes)].ok
    /\ l.outcomes[Len(l.outcomes)].year = l.year

\* What the locals l of a call are when the call runs alone: a function of
\* its own profile and of the events and load answers of its own years.
AsAlone(l) ==
    /\ l.profile \in Profiles
    /\ l.year = StartYear + Len(l.outcomes) - (IF ThrownInBody(l) THEN 1 ELSE 0)
    /\ l.country =
          (IF l.pc \in {"fetching", "resume"} /\ IsMove(l.lifeEvent)
              THEN l.lifeEvent[1].newCountry
           ELSE IF YearsWith(l, "move") # {}
              THEN l.outcomes[Last(YearsWith(l, "move"))].newCountry
           ELSE l.profile.initialCountry)
    /\ l.isRetired =
          (\/ YearsWith(l, "retire") # {}
           \/ /\ l.pc \in {"fetching", "resume"}
              /\ l.lifeEvent # <<>>
              /\ l.lifeEvent[1].event = "retire")
    /\ (l.pc \in {"fetching", "resume"} /\ HasIncome(l.lifeEvent))
          => l.previousIncome = l.lifeEvent[1].income
    /\ (l.pc \in {"fetching", "resume"} /\ HasExpenses(l.lifeEvent))
          => l.previousExpenses = l.lifeEvent[1].expenses
    /\ (l.pc = "resume" /\ l.okFetches[l.country] > 0) => l.loadResult
    /\ l.results = <<>>
    /\ l.remainingWealth = Num(l.profile.initialWealth)
    /\ l.pensionPot = Num(l.profile.initialPensionPot)
    /\ \A i \in 1 .. Len(l.investments) :
          /\ l.investments[i].type = l.profile.initialInvestments[i].type
          /\ l.investments[i].amount = l.profile.initialInvestments[i].amount
          /\ (l.investments[i].gains # {}) = ThrownInBody(l)

\* C14: of two calls that take turns at their awaits, each has the locals it
\* has when it runs alone, and the locals of the call that waits are as it
\* left them when it goes on: no step of the executing call writes them.
C14_RunsShareNoLocals ==
    /\ [](pc # "idle" => AsAlone(Locals))
    /\ [](suspended # <<>> => AsAlone(suspended[1]))
    /\ [][(suspended # <<>> /\ suspended' # <<>>) =>
            \/ suspended' = suspended
            \/ (AtAwait /\ suspended' = <<Locals>> /\ Locals' = suspended[1])]_vars
    /\ [][(suspended # <<>> /\ suspended' = <<>>) => Locals' = suspended[1]]_vars

\* Two calls on equal profiles: the executing one got its country's rules
\* from the cache, where the fetch of the waiting one had put them, sampled
\* its gains and threw; the waiting one holds its positions without gains.
C14_Witness ==
    /\ suspended # <<>>
    /\ suspended[1].profile = profile
    /\ suspended[1].pc = "resume"
    /\ suspended[1].okFetches[country] = 1
    /\ suspended[1].investments[1].gains = {}
    /\ pc = "thrown"
    /\ okFetches[country] = 0
    /\ taxRules[country] # 0
    /\ investments[1].gains # {}

Answered == call.op = "calculateIncomeTaxes" /\ ~call.threw

TaxesOf(c) == RulesOf(c).incomeTaxes

\* The highest rate of a bracket component.
TopRate(tax) ==
    CHOOSE r \in {tax.brackets[k].rate : k \in 1 .. Len(tax.brackets)} :
        \A k \in 1 .. Len(tax.brackets) : tax.brackets[k].rate <= r

\* C9 as stated: every bracket component is non-decreasing in the base and
\* leaves no unit untaxed at a bracket boundary: for Germany, base 10001 owes
\* the amount of base 10000 plus one unit at the second bracket's rate 0.30.
C9_NoUntaxedUnit ==
    Answered =>
        \A i \in 1 .. Len(call.result) :
            TaxesOf(call.country)[i].type = "bracket" =>
                LET below == TaxAmount(call.income - 1, TaxesOf(call.country)[i])
                IN  /\ call.result[i].amount >= below
                    /\ (call.country = "Germany" /\ call.income = 10001)
                          => call.result[i].amount = below + 3000

\* C9 amended: every bracket component is non-decreasing in the base and has
\* no jump (one more unit of base adds at most one unit at the component's
\* highest rate), but the unit between a bracket's upper bound and the next
\* bracket's lower bound is untaxed: the base one above an upper bound owes
\* what the upper bound owes.  For Germany, base 10001 owes what base 10000
\* owes, and base 10002 owes one unit at 0.30 more.
C9_MonotoneWithUntaxedUnit ==
    Answered =>
        \A i \in 1 .. Len(call.result) :
            LET tax == TaxesOf(call.country)[i]
                below == TaxAmount(call.income - 1, tax)
            IN  tax.type = "bracket" =>
                    /\ call.result[i].amount >= below
                    /\ call.result[i].amount - below <= TopRate(tax)
                    /\ \A k \in 1 .. Len(tax.brackets) :
                          (tax.brackets[k].to # 0 /\ call.income = tax.brackets[k].to + 1)
                              => call.result[i].amount = below
                    /\ (call.country = "Germany" /\ call.income = 10001)
                          => call.result[i].amount = below
                    /\ (call.country = "Germany" /\ call.income = 10002)
                          => call.result[i].amount = below + 3000

\* Germany's income tax for base 10001: 10000 units at 0.14 and nothing more.
C9_Witness ==
    /\ Answered
    /\ call.country = "Germany"
    /\ call.income = 10001
    /\ call.result[1].amount = 10000 * 1400

\* C10: a flat-rate component owes 0 for a base up to its threshold (a base
\* of 0 or less included) and (base - threshold) * rate above it, never a
\* negative amount.
C10_FlatRate ==
    Answered =>
        \A i \in 1 .. Len(call.result) :
            LET tax == TaxesOf(call.country)[i]
            IN  tax.type = "flatRate" =>
                    /\ call.income <= tax.threshold => call.result[i].amount = 0
                    /\ call.income > tax.threshold
                          => call.result[i].amount = (call.income - tax.threshold) * tax.rate
                    /\ call.result[i].amount >= 0

\* Ireland's PRSI for a base one above its threshold: one unit at 0.04.
C10_Witness ==
    /\ Answered
    /\ call.country = "Ireland"
    /\ call.income = 18305
    /\ call.result[3].name = "Pay Related Social Insurance"
    /\ call.result[3].amount = 400

(***************************************************************************)
(* Properties of calculatePensionContribution.                             *)
(***************************************************************************)
\* The operation was called on a TaxSystem whose rules for the country are
\* cached.
PensionAnswered == call.op = "calculatePensionContribution" /\ call.cached

\* The rate of the first Ireland band with age <= maxAge.
IrelandRate(age) ==
    IF age <= 29 THEN 1500
    ELSE IF age <= 39 THEN 2000
    ELSE IF age <= 49 THEN 2500
    ELSE IF age <= 59 THEN 3000
    ELSE 3500

\* C11: under the age-banded rule of Ireland, calculatePensionContribution
\* finds a band for every age (it never fails for want of one) and returns
\* the income times the rate of the first band with age <= maxAge (0.15 at
\* age 29, 0.20 at age 30), capped at annualCap: never more than the cap.
C11_AgeBandedContribution ==
    (PensionAnswered /\ call.country = "Ireland") =>
        /\ ~call.threw
        /\ call.result[1] = Min(call.income * IrelandRate(call.age), 115000 * 10000)
        /\ call.result[1] <= 115000 * 10000
        /\ (call.age = 29 /\ call.income = 80000) => call.result[1] = 80000 * 1500
        /\ (call.age = 30 /\ call.income = 80000) => call.result[1] = 80000 * 2000

\* At age 30 an income of 575001 would contribute more than the cap at the
\* rate 0.20: the cap is returned.
C11_Witness ==
    /\ PensionAnswered
    /\ call.country = "Ireland"
    /\ call.age = 30
    /\ call.income = 575001
    /\ ~call.threw
    /\ call.result[1] = 115000 * 10000

(***************************************************************************)
(* Properties of the evaluator operations taken together.                  *)
(***************************************************************************)
\* C12: an evaluator operation called twice on the same TaxSystem with the
\* same arguments gives the same outcome both times, whatever the state of
\* the rule cache at either call.
C12_SameCallSameOutcome ==
    call.op = "repeat" => call.first = call.second

(***************************************************************************)
(* Properties of calculateWealthTax.                                       *)
(***************************************************************************)
WealthTaxAnswered == call.op = "calculateWealthTax" /\ call.cached

====
